---- MODULE Spec2Model ----
(***************************************************************************)
(* CanvasWorkspace (graphics_frontend/src/components/CanvasWorkspace.jsx): *)
(* the layer store, the drag / resize / rotate / crop sessions and the     *)
(* asynchronous upload and crop bake, as one state machine.  One action    *)
(* per event handler; every handler runs to completion, and the state      *)
(* updates it queues are applied together before the next event.           *)
(*                                                                         *)
(* Numbers: pointer coordinates and the canvas size are integers.  The     *)
(* aspect-locked resize computes in exact rationals (a numerator over a    *)
(* common denominator), rounded as Math.round rounds (half up).  Angles    *)
(* are in units of 1/AngleUnit degree.                                     *)
(***************************************************************************)
EXTENDS Integers, Sequences, FiniteSets, TLC

VARIABLES
    layers,          \* useState([]) line 28: the layer store, in order
    dragState,       \* line 29: Null or [id, offsetX, offsetY]
    transformState,  \* line 30: Null or a resize / rotate / crop session
    shift,           \* line 35: keyModifiers.shift
    idCounter,       \* line 37: idCounterRef.current
    urlCounter,      \* object URLs handed out by URL.createObjectURL
    uploads,         \* handleFiles calls suspended at their await
    bakes,           \* applyCrop calls suspended at their await
    revoked,         \* per object URL, how often it was revoked (capped)
    pressed,         \* the pointer is down (one pointer: downs and ups alternate)
    movesLeft,       \* pointer-moves the sessions of this run may still handle
    quota,           \* image files that may still be uploaded in this run
    ev               \* the last event that reached the store or the sessions,
                     \* and the sessions that were active before it

vars == <<layers, dragState, transformState, shift, idCounter, urlCounter,
          uploads, bakes, revoked, pressed, movesLeft, quota, ev>>

-----------------------------------------------------------------------------
(* Bounds of the model *)

MaxId == 2          \* image files uploaded in a run of Spec
DeepId == 1         \* image files uploaded in a run of SpecDeep
MaxUploads == 1     \* handleFiles calls in flight
MaxBakes == 1       \* applyCrop calls in flight
MaxMoves == 1       \* pointer-moves the sessions handle in a run of Spec
DeepMoves == 2      \* pointer-moves the sessions handle in a run of SpecDeep
RevokeCap == 2      \* revocations of one URL are counted up to this
ManyUploads == 2    \* handleFiles calls in flight in a run of SpecUpload
ManyFiles == 4      \* image files uploaded in a run of SpecUpload

(* Program constants *)

MinSize == 10       \* line 403: minimum size of a resized layer
MinCrop == 1        \* line 539: minimum size of a crop box
Stagger == 16       \* line 89: offset between the layers of one upload
FitMargin == 32     \* line 68: margin of the fit box
FitFloor == 100     \* line 68: least size of the fit box
FallbackDim == 100  \* lines 57, 80: size used for an undecodable image
AngleUnit == 10000  \* angle resolution of the model: 1/10000 degree

Null == [type |-> "null"]

\* containerRef.current.getBoundingClientRect(): the canvas, at the origin
rect == [left |-> 0, top |-> 0, width |-> 400, height |-> 350]

\* pointer positions (clientX, clientY) a pointer-move can carry; a
\* pointer-down carries the centre of the element it is on
Pointers == { <<350, 300>>, <<110, 105>>, <<502, 300>>, <<200, 40>> }

\* files a user can pick: an image of type png / jpeg decodes to w x h when
\* ok, and fires onerror otherwise; a "text" file fails the type test of line 73
Photo == [type |-> "image", w |-> 200, h |-> 150, ok |-> TRUE]
Icon == [type |-> "image", w |-> 8, h |-> 6, ok |-> TRUE]
Text == [type |-> "text", w |-> 0, h |-> 0, ok |-> FALSE]

\* the file lists a user can pick or drop
FileLists == { <<Photo>>, <<Icon>>, <<Photo, Icon>>, <<Text, Photo>> }

Handles == {"n", "s", "e", "w", "ne", "nw", "se", "sw"}

-----------------------------------------------------------------------------
(* Arithmetic *)

Abs(a) == IF a < 0 THEN -a ELSE a
Max(a, b) == IF a >= b THEN a ELSE b
Min(a, b) == IF a <= b THEN a ELSE b

\* Math.round(n / d) for d > 0: the nearest integer, halves rounded up
Round(n, d) == (2 * n + d) \div (2 * d)

Range(s) == { s[i] : i \in DOMAIN s }

\* layers.find((l) => l.id === id)
Find(ls, id) == IF \E i \in DOMAIN ls : ls[i].id = id
                THEN ls[CHOOSE i \in DOMAIN ls :
                          ls[i].id = id /\ \A j \in DOMAIN ls : ls[j].id = id => i <= j]
                ELSE Null

Has(ls, id) == \E i \in DOMAIN ls : ls[i].id = id

\* selectedLayer, line 519: the first layer with isSelected
selectedLayer == IF \E i \in DOMAIN layers : layers[i].isSelected
                 THEN layers[CHOOSE i \in DOMAIN layers :
                          layers[i].isSelected
                          /\ \A j \in DOMAIN layers : layers[j].isSelected => i <= j]
                 ELSE Null

-----------------------------------------------------------------------------
(* Object URLs *)

IsBlob(src) == src.kind = "blob"

\* URL.revokeObjectURL(l.src) for every blob: src of ls, in order
RECURSIVE RevokeAll(_, _)
RevokeAll(rv, ls) ==
    IF ls = <<>> THEN rv
    ELSE LET l == Head(ls)
             rv1 == IF IsBlob(l.src)
                    THEN [rv EXCEPT ![l.src.n] = Min(RevokeCap, @ + 1)]
                    ELSE rv
         IN RevokeAll(rv1, Tail(ls))

\* the cleanup of the effect of lines 506-516: it has [layers] as dependency,
\* so it runs whenever a new layers array is committed, on the array before
EffectCleanup(rv, old) == RevokeAll(rv, old)

-----------------------------------------------------------------------------
(* Events *)

\* the last event that a handler acted on, with the sessions that were active
\* before it; an event that finds nothing to act on (a move, a release or an
\* Escape with no session, a Shift key) leaves the record as it is
Event(op) ==
    [op |-> op, drag |-> dragState # Null, type |-> transformState.type]

-----------------------------------------------------------------------------
(* Upload: handleFiles, lines 63-111 *)

\* computeFit, lines 56-60: scale = min(maxWidth/imgWidth, maxHeight/imgHeight, 1)
\* as a fraction sn/sd, then both sides rounded
computeFit(imgWidth, imgHeight, maxWidth, maxHeight) ==
    IF imgWidth <= 0 \/ imgHeight <= 0
    THEN [width |-> FallbackDim, height |-> FallbackDim]
    ELSE LET byW == maxWidth * imgHeight <= maxHeight * imgWidth
             sn0 == IF byW THEN maxWidth ELSE maxHeight
             sd0 == IF byW THEN imgWidth ELSE imgHeight
             one == sn0 >= sd0
             sn == IF one THEN 1 ELSE sn0
             sd == IF one THEN 1 ELSE sd0
         IN [width |-> Round(imgWidth * sn, sd), height |-> Round(imgHeight * sn, sd)]

\* line 73: files whose type is not png / jpeg are skipped
RECURSIVE SkipOthers(_)
SkipOthers(fs) ==
    IF fs = <<>> THEN <<>>
    ELSE IF Head(fs).type = "image" THEN fs ELSE SkipOthers(Tail(fs))

Images(fs) == Cardinality({ i \in DOMAIN fs : fs[i].type = "image" })

\* lines 77-82: the decoded size, or 100 x 100 when the image fires onerror
Dims(file) == IF file.ok THEN [w |-> file.w, h |-> file.h]
              ELSE [w |-> FallbackDim, h |-> FallbackDim]

\* a layer numbered by its place in the store instead of by the counter
NewLayerByPosition(file, src, id, count) ==
    LET dims == Dims(file)
    IN [id |-> Len(layers) + count + 1, src |-> src,
        x |-> count * Stagger, y |-> count * Stagger,
        width |-> dims.w, height |-> dims.h,
        rotation |-> 0, crop |-> Null,
        natural |-> dims, isSelected |-> FALSE]

\* lines 84-103: the layer made for a decoded file, the count-th of its upload
NewLayer(file, src, id, count) ==
    LET dims == Dims(file)
        maxWidth == Max(rect.width - FitMargin, FitFloor)
        maxHeight == Max(rect.height - FitMargin, FitFloor)
        fit == computeFit(dims.w, dims.h, maxWidth, maxHeight)
        baseX == Round(rect.width - fit.width, 2)
        baseY == Round(rect.height - fit.height, 2)
        offset == count * Stagger
    IN [id |-> id, src |-> src,
        x |-> baseX + offset, y |-> baseY + offset,
        width |-> fit.width, height |-> fit.height,
        rotation |-> 0, crop |-> Null,
        natural |-> dims, isSelected |-> FALSE]

\* URL.createObjectURL(file), line 74: a fresh blob: URL for the file's bitmap
ObjectURL(file, n) ==
    [kind |-> "blob", n |-> n, w |-> file.w, h |-> file.h, ok |-> file.ok]

\* handleFiles up to its first await: the files before the first image are
\* skipped, an object URL is made for that image and its decode is awaited
handleFiles(files) ==
    /\ UNCHANGED <<pressed, movesLeft>>
    /\ Images(files) <= quota
    /\ quota' = quota - Images(files)
    /\ LET fs == SkipOthers(files) IN
         IF fs = <<>>
         THEN UNCHANGED <<uploads, urlCounter>>
         ELSE /\ urlCounter' = urlCounter + 1
              /\ uploads' = Append(uploads,
                     [cur |-> Head(fs), src |-> ObjectURL(Head(fs), urlCounter + 1),
                      todo |-> Tail(fs), newLayers |-> <<>>])
    /\ UNCHANGED ev
    /\ UNCHANGED <<layers, dragState, transformState, shift, idCounter, bakes, revoked>>

\* a file list is picked or dropped (lines 114-135) while fewer than
\* MaxUploads calls of handleFiles are in flight
StartUpload(files) == Len(uploads) < MaxUploads /\ handleFiles(files)

Without(s, k) == [i \in 1..(Len(s) - 1) |-> IF i < k THEN s[i] ELSE s[i + 1]]

\* the decode awaited by upload k settles (onload or onerror): its layer is
\* pushed, and the loop runs on to the next image or to setLayers (line 107)
UploadDecoded(k) ==
    /\ UNCHANGED <<pressed, movesLeft, quota>>
    /\ k \in DOMAIN uploads
    /\ LET u == uploads[k]
           acc == Append(u.newLayers,
                         NewLayer(u.cur, u.src, idCounter + 1, Len(u.newLayers)))
           fs == SkipOthers(u.todo)
       IN /\ idCounter' = idCounter + 1
          /\ IF fs = <<>>
             THEN /\ layers' = layers \o acc
                  /\ revoked' = EffectCleanup(revoked, layers)
                  /\ uploads' = Without(uploads, k)
                  /\ UNCHANGED urlCounter
             ELSE /\ urlCounter' = urlCounter + 1
                  /\ uploads' = [uploads EXCEPT ![k] =
                         [cur |-> Head(fs), src |-> ObjectURL(Head(fs), urlCounter + 1),
                          todo |-> Tail(fs), newLayers |-> acc]]
                  /\ UNCHANGED <<layers, revoked>>
    /\ ev' = Event("decoded")
    /\ UNCHANGED <<dragState, transformState, shift, bakes>>

-----------------------------------------------------------------------------
(* The crop box: lines 522-543 *)

\* one corner coordinate held inside the layer, lines 532-535
Clamp(v, lo, hi) == Max(lo, Min(v, hi))

\* a crop box without its least size; C5 is tested against it
CropSizeFree(a, b) == b - a

\* lines 539-540: the least size of the crop box
CropSize(a, b) == Max(MinCrop, b - a)

\* getCropBoxRelativeToLayer, lines 522-543, for a crop session ts and the
\* selected layer sel
getCropBoxRelativeToLayer(ts, sel) ==
    LET box == ts.box
        lx == sel.x
        ly == sel.y
        rx == lx + sel.width
        by == ly + sel.height
        x1 == Clamp(box.x, lx, rx)
        y1 == Clamp(box.y, ly, by)
        x2 == Clamp(box.x + box.w, lx, rx)
        y2 == Clamp(box.y + box.h, ly, by)
    IN [x |-> x1 - lx, y |-> y1 - ly, w |-> CropSize(x1, x2), h |-> CropSize(y1, y2)]

\* The crop UI is rendered while a crop session exists and a layer is selected
CropUI == transformState.type = "crop" /\ selectedLayer # Null

-----------------------------------------------------------------------------
(* Sessions: lines 163-257 and 464-478 *)

\* the middle of the image of a layer (lines 897-922), where it is pressed
Centre(l) == <<rect.left + l.x + l.width \div 2, rect.top + l.y + l.height \div 2>>

\* the middle of the 10 x 10 handle hp.key of the selected layer, lines 736-745
HandleAt(l, handle) ==
    LET cx == l.x + l.width \div 2
        cy == l.y + l.height \div 2
        hx == CASE handle \in {"nw", "sw", "w"} -> l.x
                [] handle \in {"n", "s"} -> cx
                [] OTHER -> l.x + l.width
        hy == CASE handle \in {"nw", "n", "ne"} -> l.y
                [] handle \in {"e", "w"} -> cy
                [] OTHER -> l.y + l.height
    IN <<rect.left + hx, rect.top + hy>>

\* the middle of the 12 x 12 rotate handle, line 761 (left cx - 6, top y - 16)
RotateHandleAt(l) == <<rect.left + l.x + l.width \div 2, rect.top + l.y - 10>>

\* a point of the Crop button, line 771 (left x, top y - 42)
CropButtonAt(l) == <<rect.left + l.x + 20, rect.top + l.y - 30>>

\* Hit testing.  The workspace paints, in this order (lines 897-934): the
\* layers in store order; for selectedLayer the eight handles in the order of
\* handleProps, the rotate handle, the angle bubble and the tool row; and, in
\* a crop session, the Confirm / Cancel row (zIndex 10).  A pointer-down goes
\* to the last painted element under the pointer.  The extent of the text
\* elements depends on the font, and a rotated image covers a turned box, so
\* the boxes below are upper estimates: a pointer-down is modelled only at a
\* point where nothing can lie above the element that is pressed.
Box(left, top, width, height) ==
    [left |-> left, top |-> top, width |-> width, height |-> height]

Inside(p, b) ==
    /\ b.left <= p[1] - rect.left /\ p[1] - rect.left < b.left + b.width
    /\ b.top <= p[2] - rect.top /\ p[2] - rect.top < b.top + b.height

\* the square around the centre of a layer that holds its image however it
\* is turned
BodyBox(l) ==
    LET r == (l.width + l.height) \div 2 + 1
    IN Box(l.x + l.width \div 2 - r, l.y + l.height \div 2 - r, 2 * r + 1, 2 * r + 1)

\* handleProps, lines 736-745, in paint order
HandleOrder == <<"nw", "n", "ne", "e", "se", "s", "sw", "w">>

\* a 10 x 10 handle with its 2px border, line 646-655 and 753
HandleBox(l, handle) ==
    LET q == HandleAt(l, handle)
    IN Box(q[1] - rect.left - 5, q[2] - rect.top - 5, 15, 15)

\* the rotate handle (lines 656-665, 761), the angle bubble (lines 666-676,
\* 767) and the tool row (line 771), in paint order
RotateBox(l) == Box(l.x + l.width \div 2 - 6, l.y - 16, 17, 16)
BubbleBox(l) == Box(l.x + l.width \div 2 - 40, l.y - 64, 81, 40)
ToolRowBox(l) == Box(l.x, l.y - 42, 260, 30)

\* the Confirm / Cancel row of RenderCropUI, line 805, for the selected
\* layer sel
CropActionsBox(sel) ==
    LET rel == getCropBoxRelativeToLayer(transformState, sel)
        lx == sel.x + rel.x
        ly == sel.y + rel.y
    IN Box(lx, Max(ly - 40, 4), 200, 40)

\* something is painted at p above the i-th control of the selected layer
\* sel, where the controls are numbered 1..8 (handles), 9 (rotate handle)
\* and 11 (tool row); the layers themselves are below all the controls
Covered(p, i, sel) ==
    \/ \E k \in (i + 1)..8 : Inside(p, HandleBox(sel, HandleOrder[k]))
    \/ i < 9 /\ Inside(p, RotateBox(sel))
    \/ i < 10 /\ Inside(p, BubbleBox(sel))
    \/ i < 11 /\ Inside(p, ToolRowBox(sel))
    \/ transformState.type = "crop" /\ Inside(p, CropActionsBox(sel))

\* nothing is painted above the image of layer id at p
BodyExposed(id, p) ==
    /\ \A i, j \in DOMAIN layers :
           (layers[i].id = id /\ j > i) => ~Inside(p, BodyBox(layers[j]))
    /\ LET sel == selectedLayer IN sel # Null => ~Covered(p, 0, sel)

\* nothing is painted above the i-th control of the selected layer at p
ControlExposed(i, p) == ~Covered(p, i, selectedLayer)

HandleIndex(handle) == CHOOSE k \in 1..8 : HandleOrder[k] = handle

\* a faulty select that keeps the flags already set; C1 is tested against it
SelectKeeping(ls, id) ==
    [i \in DOMAIN ls |-> [ls[i] EXCEPT !.isSelected = (@ \/ ls[i].id = id)]]

\* prev.map((l) => ({...l, isSelected: l.id === id})), lines 173-178
Select(ls, id) == [i \in DOMAIN ls |-> [ls[i] EXCEPT !.isSelected = (ls[i].id = id)]]

\* onLayerPointerDown, lines 163-192: pointer-down on the image of layer id
onLayerPointerDown(id, p) ==
    /\ ~pressed /\ movesLeft > 0
    /\ Has(layers, id)
    /\ p = Centre(Find(layers, id))
    /\ BodyExposed(id, p)
    /\ pressed' = TRUE
    /\ UNCHANGED <<movesLeft, quota>>
    /\ LET pointerX == p[1] - rect.left
           pointerY == p[2] - rect.top
           layer == Find(layers, id)
       IN dragState' = [id |-> id,
                        offsetX |-> pointerX - layer.x,
                        offsetY |-> pointerY - layer.y]
    /\ layers' = Select(layers, id)
    /\ revoked' = EffectCleanup(revoked, layers)
    /\ ev' = Event("layerDown")
    /\ UNCHANGED <<transformState, shift, idCounter, urlCounter, uploads, bakes>>

\* lines 198-217: the session that startResize(e, id, handle) leaves; it
\* returns at line 202 when the store has no layer id.  start.aspect is kept
\* as the fraction aw / ah.
ResizeSessionOf(id, handle, p) ==
    IF ~Has(layers, id) THEN transformState
    ELSE LET layer == Find(layers, id)
         IN [type |-> "resize", id |-> id, handle |-> handle,
             start |-> [x |-> layer.x, y |-> layer.y,
                        width |-> layer.width, height |-> layer.height,
                        mouseX |-> p[1] - rect.left, mouseY |-> p[2] - rect.top,
                        aw |-> layer.width, ah |-> layer.height],
             constrained |-> shift]

\* startResize, lines 195-218: pointer-down on a resize handle; the handles
\* are rendered for selectedLayer only (lines 730-758, 928)
startResize(handle, p) ==
    /\ ~pressed /\ movesLeft > 0
    /\ selectedLayer # Null
    /\ p = HandleAt(selectedLayer, handle)
    /\ ControlExposed(HandleIndex(handle), p)
    /\ pressed' = TRUE
    /\ UNCHANGED <<movesLeft, quota>>
    /\ transformState' = ResizeSessionOf(selectedLayer.id, handle, p)
    /\ ev' = Event("startResize")
    /\ UNCHANGED <<layers, dragState, shift, idCounter, urlCounter, uploads, bakes,
                   revoked>>

\* arctangents of 2^-i, i = 0..14, in millionths of a degree
AtanTable == <<45000000, 26565051, 14036243, 7125016, 3576334, 1789911, 895174,
               447614, 223811, 111906, 55953, 27976, 13988, 6994, 3497>>

\* the angle of (x, y), x > 0, y >= 0, in millionths of a degree, by rotating
\* the vector onto the x axis; what is left after the table is used up is
\* y / x radians
RECURSIVE Cordic(_, _, _, _)
Cordic(x, y, i, acc) ==
    IF y = 0 THEN acc
    ELSE IF i > Len(AtanTable) THEN acc + (y * 572958) \div (x \div 100)
    ELSE LET sh == 2 ^ (i - 1) IN
         IF y > 0
         THEN Cordic(x + y \div sh, y - x \div sh, i + 1, acc + AtanTable[i])
         ELSE Cordic(x - y \div sh, y + x \div sh, i + 1, acc - AtanTable[i])

\* the power of two that brings a length m >= 1 up to 2^24
RECURSIVE Scale(_)
Scale(m) == IF 2 * m > 16777216 THEN 1 ELSE 2 * Scale(2 * m)

\* Math.atan2(y, x) in 1/AngleUnit degree, in (-180, 180] degrees
Atan2(y, x) ==
    LET half == 180 * AngleUnit
        s == Scale(Max(Abs(x), Abs(y)))
        a == IF x = 0 /\ y = 0 THEN 0
             ELSE IF Abs(x) >= Abs(y)
                  THEN Round(Cordic(Abs(x) * s, Abs(y) * s, 1, 0), 100)
                  ELSE (half \div 2) - Round(Cordic(Abs(y) * s, Abs(x) * s, 1, 0), 100)
    IN IF x >= 0 THEN (IF y >= 0 THEN a ELSE -a)
       ELSE (IF y >= 0 THEN half - a ELSE a - half)

\* lines 224-241: the session that startRotate(e, id) leaves; it returns at
\* line 228 when the store has no layer id.  The centre is kept doubled
\* (cx2 = 2 cx) so that it stays an integer.
RotateSessionOf(id, p) ==
    IF ~Has(layers, id) THEN transformState
    ELSE LET layer == Find(layers, id)
             mouseX == p[1] - rect.left
             mouseY == p[2] - rect.top
             cx2 == 2 * layer.x + layer.width
             cy2 == 2 * layer.y + layer.height
         IN [type |-> "rotate", id |-> id,
             start |-> [cx2 |-> cx2, cy2 |-> cy2,
                        angle0 |-> layer.rotation * AngleUnit,
                        mouseAngle0 |-> Atan2(2 * mouseY - cy2, 2 * mouseX - cx2)]]

\* startRotate, lines 221-242: pointer-down on the rotate handle
startRotate(p) ==
    /\ ~pressed /\ movesLeft > 0
    /\ selectedLayer # Null
    /\ p = RotateHandleAt(selectedLayer)
    /\ ControlExposed(9, p)
    /\ pressed' = TRUE
    /\ UNCHANGED <<movesLeft, quota>>
    /\ transformState' = RotateSessionOf(selectedLayer.id, p)
    /\ ev' = Event("startRotate")
    /\ UNCHANGED <<layers, dragState, shift, idCounter, urlCounter, uploads, bakes,
                   revoked>>

\* lines 468-477: the session that beginCropDraw(e, id) leaves; the store is
\* not consulted
CropSessionOf(id, p) ==
    LET mouseX == p[1] - rect.left
        mouseY == p[2] - rect.top
    IN [type |-> "crop", id |-> id, mode |-> "adjust",
        box |-> [x |-> mouseX, y |-> mouseY, w |-> 0, h |-> 0],
        start |-> [mouseX |-> mouseX, mouseY |-> mouseY]]

\* beginCropDraw, lines 465-478: pointer-down on the Crop button, which is
\* rendered for selectedLayer only (lines 771-776)
beginCropDraw(p) ==
    /\ ~pressed /\ movesLeft > 0
    /\ selectedLayer # Null
    /\ p = CropButtonAt(selectedLayer)
    /\ ControlExposed(11, p)
    /\ pressed' = TRUE
    /\ UNCHANGED <<movesLeft, quota>>
    /\ transformState' = CropSessionOf(selectedLayer.id, p)
    /\ ev' = Event("beginCrop")
    /\ UNCHANGED <<layers, dragState, shift, idCounter, urlCounter, uploads, bakes,
                   revoked>>

-----------------------------------------------------------------------------
(* Pointer move: onContainerPointerMove, lines 316-462 *)

\* a faulty applyAspect that follows the width on equal deltas; C8 is tested
\* against it
applyAspectByWidth(w, h, start, constrained, dx, dy) ==
    IF ~constrained THEN [w |-> w, h |-> h, d |-> 1]
    ELSE IF Abs(dx) >= Abs(dy)
         THEN [w |-> w * start.aw, h |-> w * start.ah, d |-> start.aw]
         ELSE [w |-> h * start.aw, h |-> h * start.ah, d |-> start.ah]

\* applyAspect, lines 336-345, on integers w and h.  The result is the pair
\* w / d, h / d: with the lock, h = w / aspect when |dx| > |dy| and
\* w = h * aspect otherwise, where aspect = aw / ah (|| 1 when it is 0).
applyAspect(w, h, start, constrained, dx, dy) ==
    IF ~constrained THEN [w |-> w, h |-> h, d |-> 1]
    ELSE LET an == IF start.aw = 0 THEN 1 ELSE start.aw
             ad == IF start.aw = 0 THEN 1 ELSE start.ah
         IN IF Abs(dx) > Abs(dy)
            THEN [w |-> w * an, h |-> w * ad, d |-> an]
            ELSE [w |-> h * an, h |-> h * ad, d |-> ad]

\* one entry of anchors, lines 347-398: the handle sets nw and nh to w and h,
\* applies the aspect lock, and then moves x (left) or y (top) when the handle
\* is on that side.  All four results are numerators over d.
Anchor(w, h, left, top, start, constrained, dx, dy) ==
    LET a == applyAspect(w, h, start, constrained, dx, dy)
    IN [nw |-> a.w, nh |-> a.h, d |-> a.d,
        nx |-> IF left THEN (start.x + start.width) * a.d - a.w ELSE start.x * a.d,
        ny |-> IF top THEN (start.y + start.height) * a.d - a.h ELSE start.y * a.d]

\* anchors[handle](), lines 347-400
anchors(handle, start, constrained, dx, dy) ==
    CASE handle = "n" ->
           Anchor(start.width, start.height - dy, FALSE, TRUE, start, constrained, dx, dy)
      [] handle = "s" ->
           Anchor(start.width, start.height + dy, FALSE, FALSE, start, constrained, dx, dy)
      [] handle = "w" ->
           Anchor(start.width - dx, start.height, TRUE, FALSE, start, constrained, dx, dy)
      [] handle = "e" ->
           Anchor(start.width + dx, start.height, FALSE, FALSE, start, constrained, dx, dy)
      [] handle = "nw" ->
           Anchor(start.width - dx, start.height - dy, TRUE, TRUE, start, constrained, dx, dy)
      [] handle = "ne" ->
           Anchor(start.width + dx, start.height - dy, FALSE, TRUE, start, constrained, dx, dy)
      [] handle = "sw" ->
           Anchor(start.width - dx, start.height + dy, TRUE, FALSE, start, constrained, dx, dy)
      [] handle = "se" ->
           Anchor(start.width + dx, start.height + dy, FALSE, FALSE, start, constrained, dx, dy)

\* a resize without the minimum size; C4 is tested against it
NoFloor(n, d) == n

\* lines 403-404: Math.max(10, n) on the numerator n over d
AtLeastMin(n, d) == Max(MinSize * d, n)

\* lines 407-408: Math.max(0, Math.min(n, size - m)) on numerators over d
Bound(n, m, size, d) == Max(0, Min(n, size * d - m))

\* a faulty resize move that reads the Shift key as it is during the move;
\* C28 is tested against it
ResizedByKey(l, ts, pointerX, pointerY) ==
    LET start == ts.start
        dx == pointerX - start.mouseX
        dy == pointerY - start.mouseY
        a == anchors(ts.handle, start, shift, dx, dy)
        nw == AtLeastMin(a.nw, a.d)
        nh == AtLeastMin(a.nh, a.d)
        nx == Bound(a.nx, nw, rect.width, a.d)
        ny == Bound(a.ny, nh, rect.height, a.d)
    IN [l EXCEPT !.x = Round(nx, a.d), !.y = Round(ny, a.d),
                 !.width = Round(nw, a.d), !.height = Round(nh, a.d)]

\* lines 331-410: the layer a resize move writes, from the session alone
Resized(l, ts, pointerX, pointerY) ==
    LET start == ts.start
        dx == pointerX - start.mouseX
        dy == pointerY - start.mouseY
        a == anchors(ts.handle, start, ts.constrained, dx, dy)
        nw == AtLeastMin(a.nw, a.d)
        nh == AtLeastMin(a.nh, a.d)
        nx == Bound(a.nx, nw, rect.width, a.d)
        ny == Bound(a.ny, nh, rect.height, a.d)
    IN [l EXCEPT !.x = Round(nx, a.d), !.y = Round(ny, a.d),
                 !.width = Round(nw, a.d), !.height = Round(nh, a.d)]

\* a faulty rotate move that turns the layer on from where the last move left
\* it; C24 is tested against it
RotatedOn(l, ts, pointerX, pointerY) ==
    LET start == ts.start
        angleNow == Atan2(2 * pointerY - start.cy2, 2 * pointerX - start.cx2)
    IN [l EXCEPT !.rotation =
           Round(l.rotation * AngleUnit + angleNow - start.mouseAngle0, AngleUnit)]

\* lines 419-426: the layer a rotate move writes
Rotated(l, ts, pointerX, pointerY) ==
    LET start == ts.start
        angleNow == Atan2(2 * pointerY - start.cy2, 2 * pointerX - start.cx2)
        delta == angleNow - start.mouseAngle0
        newAngle == start.angle0 + delta
    IN [l EXCEPT !.rotation = Round(newAngle, AngleUnit)]

\* line 451-452: the largest position of a dragged layer along one axis
DragMax(size, extent) == Max(size - extent, 0)

\* a drag that follows the pointer out of the canvas; C3 is tested against it
DraggedFreely(l, ds, pointerX, pointerY) ==
    [l EXCEPT !.x = pointerX - ds.offsetX, !.y = pointerY - ds.offsetY]

\* lines 450-457: the layer a drag move writes
Dragged(l, ds, pointerX, pointerY) ==
    LET maxX == DragMax(rect.width, l.width)
        maxY == DragMax(rect.height, l.height)
        nx == pointerX - ds.offsetX
        ny == pointerY - ds.offsetY
    IN [l EXCEPT !.x = Max(0, Min(nx, maxX)), !.y = Max(0, Min(ny, maxY))]

\* lines 434-442: the box a crop move draws
Drawn(ts, pointerX, pointerY) ==
    [x |-> Min(ts.start.mouseX, pointerX),
     y |-> Min(ts.start.mouseY, pointerY),
     w |-> Abs(pointerX - ts.start.mouseX),
     h |-> Abs(pointerY - ts.start.mouseY)]

\* onContainerPointerMove: the branches in the order of the code
onContainerPointerMove(p) ==
    LET pointerX == p[1] - rect.left
        pointerY == p[2] - rect.top
        ts == transformState
        idle == ts.type \notin {"resize", "rotate", "crop"} /\ dragState = Null
    IN /\ ev' = IF idle THEN ev ELSE Event("move")
       /\ UNCHANGED pressed
       /\ IF idle THEN UNCHANGED movesLeft
          ELSE movesLeft > 0 /\ movesLeft' = movesLeft - 1
       /\ UNCHANGED quota
       /\ UNCHANGED <<dragState, shift, idCounter, urlCounter, uploads, bakes>>
       /\ CASE ts.type = "resize" ->
                 /\ layers' = [i \in DOMAIN layers |->
                       IF layers[i].id # ts.id THEN layers[i]
                       ELSE Resized(layers[i], ts, pointerX, pointerY)]
                 /\ revoked' = EffectCleanup(revoked, layers)
                 /\ UNCHANGED transformState
            [] ts.type = "rotate" ->
                 /\ layers' = [i \in DOMAIN layers |->
                       IF layers[i].id # ts.id THEN layers[i]
                       ELSE Rotated(layers[i], ts, pointerX, pointerY)]
                 /\ revoked' = EffectCleanup(revoked, layers)
                 /\ UNCHANGED transformState
            [] ts.type = "crop" /\ ts.mode = "adjust" ->
                 /\ IF "start" \in DOMAIN ts
                    THEN transformState' = [ts EXCEPT !.box = Drawn(ts, pointerX, pointerY)]
                    ELSE UNCHANGED transformState
                 /\ UNCHANGED <<layers, revoked>>
            [] OTHER ->
                 IF dragState = Null
                 THEN UNCHANGED <<layers, transformState, revoked>>
                 ELSE /\ layers' = [i \in DOMAIN layers |->
                            IF layers[i].id # dragState.id THEN layers[i]
                            ELSE Dragged(layers[i], dragState, pointerX, pointerY)]
                      /\ revoked' = EffectCleanup(revoked, layers)
                      /\ UNCHANGED transformState

\* a faulty pointer-up that ends every session; C10 is tested against it
PointerUpEndsCrop ==
    /\ pressed' = FALSE
    /\ UNCHANGED <<movesLeft, quota>>
    /\ dragState' = Null
    /\ transformState' = Null
    /\ ev' = IF pressed THEN Event("up") ELSE ev
    /\ UNCHANGED <<layers, shift, idCounter, urlCounter, uploads, bakes, revoked>>

\* onContainerPointerUp, lines 481-489: the handler of pointer-up (line 866)
\* and of pointer-leave (line 867)
onContainerPointerUp ==
    /\ pressed' = FALSE
    /\ UNCHANGED <<movesLeft, quota>>
    /\ dragState' = Null
    /\ transformState' = IF transformState # Null /\ transformState.type # "crop"
                         THEN Null ELSE transformState
    /\ ev' = IF pressed THEN Event("up") ELSE ev
    /\ UNCHANGED <<layers, shift, idCounter, urlCounter, uploads, bakes, revoked>>

-----------------------------------------------------------------------------
(* Keys: lines 143-160 *)

KeyDown(key) ==
    /\ UNCHANGED <<pressed, movesLeft, quota>>
    /\ shift' = IF key = "Shift" THEN TRUE ELSE shift
    /\ transformState' = IF key = "Escape" THEN Null ELSE transformState
    /\ ev' = IF key = "Escape" /\ (transformState # Null \/ dragState # Null)
             THEN Event(key) ELSE ev
    /\ UNCHANGED <<layers, dragState, idCounter, urlCounter, uploads, bakes, revoked>>

KeyUp(key) ==
    /\ UNCHANGED <<pressed, movesLeft, quota>>
    /\ key = "Shift"
    /\ shift' = FALSE
    /\ UNCHANGED ev
    /\ UNCHANGED <<layers, dragState, transformState, idCounter, urlCounter, uploads,
                   bakes, revoked>>

-----------------------------------------------------------------------------
(* Crop: lines 260-313, 522-543 and 782-826 *)

\* Confirm, lines 808-811: applyCrop(selectedLayer.id, rel) runs up to its
\* await (lines 261-271) with the layer it finds now, and the session is cleared
ConfirmCrop ==
    /\ UNCHANGED <<pressed, movesLeft, quota>>
    /\ CropUI
    /\ Len(bakes) < MaxBakes
    /\ LET rel == getCropBoxRelativeToLayer(transformState, selectedLayer)
           layer == Find(layers, selectedLayer.id)
       IN bakes' = Append(bakes, [layerId |-> layer.id, cropBox |-> rel,
                                  src |-> layer.src,
                                  width |-> layer.width, height |-> layer.height])
    /\ transformState' = Null
    /\ ev' = Event("confirm")
    /\ UNCHANGED <<layers, dragState, shift, idCounter, urlCounter, uploads, revoked>>

\* a faulty Cancel that stores the drawn rectangle in the layer's crop field;
\* C27 is tested against it
CancelCropStoring ==
    /\ UNCHANGED <<pressed, movesLeft, quota>>
    /\ CropUI
    /\ transformState' = Null
    /\ ev' = Event("cancel")
    /\ LET rel == getCropBoxRelativeToLayer(transformState, selectedLayer)
       IN layers' = [i \in DOMAIN layers |->
             IF layers[i].id # selectedLayer.id THEN layers[i]
             ELSE [layers[i] EXCEPT !.crop = [x |-> rel.x, y |-> rel.y,
                                              width |-> rel.w, height |-> rel.h]]]
    /\ revoked' = EffectCleanup(revoked, layers)
    /\ UNCHANGED <<dragState, shift, idCounter, urlCounter, uploads, bakes>>

\* Cancel, line 818
CancelCrop ==
    /\ UNCHANGED <<pressed, movesLeft, quota>>
    /\ CropUI
    /\ transformState' = Null
    /\ ev' = Event("cancel")
    /\ UNCHANGED <<layers, dragState, shift, idCounter, urlCounter, uploads, bakes,
                   revoked>>

\* lines 278-284: the triples <<bitmap extent, display extent, v>> whose double
\* product v * (bitmap / display) lies just below the half-integer
\* v * bitmap / display, so that Math.round rounds it down; listed for the
\* bitmap extents 6, 8, 100, 150, 200 and 400 and every display extent up to
\* 400 (IEEE 754 binary64, round to nearest even)
HalfLost ==
    { <<6, 188, 47>>, <<6, 376, 94>>, <<100, 232, 145>>, <<100, 248, 155>>,
      <<150, 28, 21>>, <<150, 56, 42>>, <<150, 112, 84>>, <<150, 212, 159>>,
      <<150, 220, 11>>, <<150, 220, 77>>, <<150, 220, 143>>, <<150, 220, 165>>,
      <<150, 220, 187>>, <<150, 224, 168>>, <<150, 260, 13>>, <<150, 260, 39>>,
      <<150, 260, 91>>, <<150, 260, 143>>, <<150, 260, 169>>, <<150, 260, 195>>,
      <<150, 260, 221>>, <<150, 268, 201>>, <<150, 284, 213>>, <<150, 348, 145>>,
      <<150, 372, 155>> }

\* lines 278-284: Math.round(v * scale) with scale = bitmap / display
Scaled(v, bitmap, display) ==
    IF <<bitmap, display, v>> \in HalfLost THEN Round(v * bitmap, display) - 1
    ELSE Round(v * bitmap, display)

\* lines 273-284: the source rectangle of a bake b in the decoded bitmap
SourceRect(b) ==
    LET currentBitmapW == b.src.w
        currentBitmapH == b.src.h
    IN [sx |-> Max(0, Scaled(b.cropBox.x, currentBitmapW, b.width)),
        sy |-> Max(0, Scaled(b.cropBox.y, currentBitmapH, b.height)),
        sw |-> Max(1, Scaled(b.cropBox.w, currentBitmapW, b.width)),
        sh |-> Max(1, Scaled(b.cropBox.h, currentBitmapH, b.height))]

\* a canvas one pixel wider and higher than the source rectangle
DataURLPadded(r) ==
    [kind |-> "data", n |-> 0, w |-> r.sw + 1, h |-> r.sh + 1, ok |-> TRUE]

\* lines 286-291: the data URL of the sw x sh canvas
DataURL(r) == [kind |-> "data", n |-> 0, w |-> r.sw, h |-> r.sh, ok |-> TRUE]

\* lines 303-310: the layer the bake writes
Baked(l, b) ==
    [l EXCEPT !.src = DataURL(SourceRect(b)),
              !.width = b.cropBox.w, !.height = b.cropBox.h,
              !.crop = Null]

\* whether the image of a src can still be decoded: a broken file never, a
\* revoked object URL depending on the browser's cache
MayLoad(src) == src.ok
MayFail(src) == ~src.ok \/ (IsBlob(src) /\ revoked[src.n] > 0)

\* the decode awaited by bake k fires onload: lines 273-312
BakeDecoded(k) ==
    /\ UNCHANGED <<pressed, movesLeft, quota>>
    /\ k \in DOMAIN bakes
    /\ MayLoad(bakes[k].src)
    /\ LET b == bakes[k]
           hit == SelectSeq(layers, LAMBDA l : l.id = b.layerId)
       IN /\ layers' = [i \in DOMAIN layers |->
                IF layers[i].id # b.layerId THEN layers[i] ELSE Baked(layers[i], b)]
          /\ revoked' = EffectCleanup(RevokeAll(revoked, hit), layers)
    /\ bakes' = Without(bakes, k)
    /\ ev' = Event("baked")
    /\ UNCHANGED <<dragState, transformState, shift, idCounter, urlCounter, uploads>>

\* a failed decode that writes the crop box size into the layer and keeps the
\* old bitmap
BakeFailedHalfway(k) ==
    /\ UNCHANGED <<pressed, movesLeft, quota>>
    /\ k \in DOMAIN bakes
    /\ MayFail(bakes[k].src)
    /\ layers' = [i \in DOMAIN layers |->
          IF layers[i].id # bakes[k].layerId THEN layers[i]
          ELSE [layers[i] EXCEPT !.width = bakes[k].cropBox.w,
                                 !.height = bakes[k].cropBox.h]]
    /\ bakes' = Without(bakes, k)
    /\ ev' = Event("bakeFailed")
    /\ UNCHANGED <<dragState, transformState, shift, idCounter, urlCounter,
                   uploads, revoked>>

\* the decode awaited by bake k fails: onload never fires (no onerror is set,
\* line 266-271) and the call never resumes
BakeFailed(k) ==
    /\ UNCHANGED <<pressed, movesLeft, quota>>
    /\ k \in DOMAIN bakes
    /\ MayFail(bakes[k].src)
    /\ bakes' = Without(bakes, k)
    /\ ev' = Event("bakeFailed")
    /\ UNCHANGED <<layers, dragState, transformState, shift, idCounter, urlCounter,
                   uploads, revoked>>

\* clearCanvas, lines 492-503
clearCanvas ==
    /\ UNCHANGED <<pressed, movesLeft, quota>>
    /\ layers' = <<>>
    /\ revoked' = EffectCleanup(RevokeAll(revoked, layers), layers)
    /\ ev' = Event("clear")
    /\ UNCHANGED <<dragState, transformState, shift, idCounter, urlCounter, uploads,
                   bakes>>

-----------------------------------------------------------------------------
(* The state machine *)

Start ==
    /\ layers = <<>>
    /\ dragState = Null
    /\ transformState = Null
    /\ shift = FALSE
    /\ idCounter = 0
    /\ urlCounter = 0
    /\ uploads = <<>>
    /\ bakes = <<>>
    /\ revoked = [n \in 1..MaxId |-> 0]
    /\ pressed = FALSE
    /\ ev = [op |-> "init", drag |-> FALSE, type |-> "null"]

\* a run with two images and one handled move
Init == Start /\ movesLeft = MaxMoves /\ quota = MaxId

\* a run with one image and two handled moves
InitDeep == Start /\ movesLeft = DeepMoves /\ quota = DeepId

Ids == 1..MaxId

Next ==
    \/ \E files \in FileLists : StartUpload(files)
    \/ \E k \in 1..MaxUploads : UploadDecoded(k)
    \/ \E id \in Ids : onLayerPointerDown(id, Centre(Find(layers, id)))
    \/ \E h \in Handles : startResize(h, HandleAt(selectedLayer, h))
    \/ startRotate(RotateHandleAt(selectedLayer))
    \/ beginCropDraw(CropButtonAt(selectedLayer))
    \/ \E p \in Pointers : onContainerPointerMove(p)
    \/ onContainerPointerUp
    \/ \E key \in {"Shift", "Escape"} : KeyDown(key)
    \/ KeyUp("Shift")
    \/ ConfirmCrop
    \/ CancelCrop
    \/ \E k \in 1..MaxBakes : BakeDecoded(k)
    \/ \E k \in 1..MaxBakes : BakeFailed(k)
    \/ clearCanvas

Spec == Init /\ [][Next]_vars

SpecDeep == InitDeep /\ [][Next]_vars

-----------------------------------------------------------------------------
(* The crop bake on its own: applyCrop, lines 260-313, over a range of
   display sizes, bitmap sizes and crop boxes *)

\* <<display width, display height, bitmap width, bitmap height>> of the layer
BakeSizes == { <<200, 200, 400, 400>>, <<200, 150, 200, 150>>,
               <<120, 90, 200, 150>>, <<150, 100, 100, 100>>,
               <<200, 28, 200, 150>> }

\* layer-local crop boxes handed to applyCrop
BakeBoxes == { [x |-> x, y |-> y, w |-> w, h |-> h] :
                 x \in {0, 10, 33}, y \in {0, 10}, w \in {1, 50, 77}, h \in {1, 21, 50} }

\* the layer with display size and bitmap size sz, selected, at (100, 45)
BakeLayer(sz) ==
    [id |-> 1,
     src |-> [kind |-> "blob", n |-> 1, w |-> sz[3], h |-> sz[4], ok |-> TRUE],
     x |-> 100, y |-> 45, width |-> sz[1], height |-> sz[2],
     rotation |-> 0, crop |-> Null,
     natural |-> [w |-> sz[3], h |-> sz[4]], isSelected |-> TRUE]

\* Confirm has been clicked on a crop box, applyCrop awaits its decode, and a
\* new crop session has since been drawn from the left end of the Crop button
\* (line 771: left x, top y - 42) to the far corner of the canvas, so that its
\* box covers the layer
InitBake ==
    \E sz \in BakeSizes, box \in BakeBoxes :
       /\ box.x + box.w <= sz[1] /\ box.y + box.h <= sz[2]
       /\ layers = << BakeLayer(sz) >>
       /\ bakes = << [layerId |-> 1, cropBox |-> box, src |-> BakeLayer(sz).src,
                      width |-> sz[1], height |-> sz[2]] >>
       /\ transformState =
             [type |-> "crop", id |-> 1, mode |-> "adjust",
              box |-> [x |-> 100, y |-> 15,
                       w |-> rect.width - 100, h |-> rect.height - 15],
              start |-> [mouseX |-> 100, mouseY |-> 15]]
       /\ dragState = Null
       /\ shift = FALSE
       /\ idCounter = 1
       /\ urlCounter = 1
       /\ uploads = <<>>
       /\ revoked = [n \in 1..MaxId |-> IF n = 1 THEN 1 ELSE 0]
       /\ pressed = FALSE
       /\ movesLeft = 0
       /\ quota = 0
       /\ ev = [op |-> "move", drag |-> FALSE, type |-> "crop"]

\* the decode settles and Confirm is clicked again
NextBake ==
    \/ \E k \in 1..MaxBakes : BakeDecoded(k)
    \/ ConfirmCrop

SpecBake == InitBake /\ [][NextBake]_vars

-----------------------------------------------------------------------------
(* Uploads that overlap: file lists picked while earlier ones still decode,
   and Clear clicked in between *)

\* a file list is picked or dropped while fewer than ManyUploads calls of
\* handleFiles are in flight
StartUploadBeside(files) == Len(uploads) < ManyUploads /\ handleFiles(files)

InitUpload ==
    /\ layers = <<>>
    /\ dragState = Null
    /\ transformState = Null
    /\ shift = FALSE
    /\ idCounter = 0
    /\ urlCounter = 0
    /\ uploads = <<>>
    /\ bakes = <<>>
    /\ revoked = [n \in 1..ManyFiles |-> 0]
    /\ pressed = FALSE
    /\ movesLeft = 0
    /\ quota = ManyFiles
    /\ ev = [op |-> "init", drag |-> FALSE, type |-> "null"]

NextUpload ==
    \/ \E files \in FileLists : StartUploadBeside(files)
    \/ \E k \in 1..ManyUploads : UploadDecoded(k)
    \/ clearCanvas

SpecUpload == InitUpload /\ [][NextUpload]_vars

-----------------------------------------------------------------------------
(* Dispatch: the pointer-down handlers called with the id of a layer that the
   store does not hold.  The rendered elements carry the id of a layer of the
   store (lines 754, 762, 772, 914); here the handlers are taken as the
   functions they are. *)

\* startResize(e, id, handle), lines 195-218, for an id not in the store
startResizeAbsent(id, handle, p) ==
    /\ ~pressed /\ movesLeft > 0
    /\ ~Has(layers, id)
    /\ pressed' = TRUE
    /\ transformState' = ResizeSessionOf(id, handle, p)
    /\ ev' = Event("startResize")
    /\ UNCHANGED <<layers, dragState, shift, idCounter, urlCounter, uploads, bakes,
                   revoked, movesLeft, quota>>

\* startRotate(e, id), lines 221-242, for an id not in the store
startRotateAbsent(id, p) ==
    /\ ~pressed /\ movesLeft > 0
    /\ ~Has(layers, id)
    /\ pressed' = TRUE
    /\ transformState' = RotateSessionOf(id, p)
    /\ ev' = Event("startRotate")
    /\ UNCHANGED <<layers, dragState, shift, idCounter, urlCounter, uploads, bakes,
                   revoked, movesLeft, quota>>

\* beginCropDraw(e, id), lines 465-478, for an id not in the store
beginCropDrawAbsent(id, p) ==
    /\ ~pressed /\ movesLeft > 0
    /\ ~Has(layers, id)
    /\ pressed' = TRUE
    /\ transformState' = CropSessionOf(id, p)
    /\ ev' = Event("beginCrop")
    /\ UNCHANGED <<layers, dragState, shift, idCounter, urlCounter, uploads, bakes,
                   revoked, movesLeft, quota>>

\* onLayerPointerDown(e, id), lines 163-192, for an id not in the store: the
\* drag offsets are taken from { x: 0, y: 0 } (line 181)
onLayerPointerDownAbsent(id, p) ==
    /\ ~pressed /\ movesLeft > 0
    /\ ~Has(layers, id)
    /\ pressed' = TRUE
    /\ dragState' = [id |-> id, offsetX |-> p[1] - rect.left, offsetY |-> p[2] - rect.top]
    /\ layers' = Select(layers, id)
    /\ revoked' = EffectCleanup(revoked, layers)
    /\ ev' = Event("layerDown")
    /\ UNCHANGED <<transformState, shift, idCounter, urlCounter, uploads, bakes,
                   movesLeft, quota>>

\* a run with one image and one handled move
InitDispatch == Start /\ movesLeft = MaxMoves /\ quota = DeepId

NextDispatch ==
    \/ Next
    \/ \E id \in Ids, h \in Handles, p \in Pointers : startResizeAbsent(id, h, p)
    \/ \E id \in Ids, p \in Pointers : startRotateAbsent(id, p)
    \/ \E id \in Ids, p \in Pointers : beginCropDrawAbsent(id, p)
    \/ \E id \in Ids, p \in Pointers : onLayerPointerDownAbsent(id, p)

SpecDispatch == InitDispatch /\ [][NextDispatch]_vars

-----------------------------------------------------------------------------
(* Properties *)

\* the layers a session with this id works on
Target(id) == { i \in DOMAIN layers : layers[i].id = id }

\* the last event was a pointer-move handled by the drag branch
DragMoved == ev.op = "move" /\ ev.drag /\ ev.type = "null"

\* the last event was a pointer-move handled by the resize branch
ResizeMoved == ev.op = "move" /\ ev.type = "resize"

\* C1: in every reachable state at most one layer of the store has
\* isSelected = true.
C1_AtMostOneSelected ==
    Cardinality({ i \in DOMAIN layers : layers[i].isSelected }) <= 1

\* C1, the case: with a crop session open on layer 1, which was selected to
\* open it, a pointer-down has moved the selection to layer 2.
C1_SelectionMoved ==
    /\ Len(layers) = 2
    /\ transformState.type = "crop" /\ transformState.id = layers[1].id
    /\ ev.op = "layerDown"
    /\ layers[2].isSelected /\ ~layers[1].isSelected

\* C2: a drag session and a resize / rotate / crop session never coexist.
C2_OneInteraction == ~(dragState # Null /\ transformState # Null)

\* C3: after a drag pointer-move the dragged layer has 0 <= x <= W - width
\* and 0 <= y <= H - height, and x = 0 (y = 0) when it is wider (taller) than
\* the canvas.
C3_DragClamped ==
    DragMoved =>
      \A i \in Target(dragState.id) :
         LET l == layers[i] IN
         /\ IF l.width > rect.width THEN l.x = 0
            ELSE 0 <= l.x /\ l.x <= rect.width - l.width
         /\ IF l.height > rect.height THEN l.y = 0
            ELSE 0 <= l.y /\ l.y <= rect.height - l.height

\* C3, the case: a layer wider than the canvas has been dragged, and a drag
\* has been held at the lower edge of the canvas.
C3_DraggedOversize ==
    /\ DragMoved
    /\ \E i \in Target(dragState.id) :
         /\ layers[i].width > rect.width /\ layers[i].x = 0
         /\ layers[i].y = rect.height - layers[i].height

\* C4: a resize pointer-move never leaves the resized layer with width < 10
\* or height < 10, whatever the handle, the pointer and the aspect lock.
C4_ResizeFloor ==
    ResizeMoved =>
      \A i \in Target(transformState.id) :
         layers[i].width >= MinSize /\ layers[i].height >= MinSize

\* C4, the case: an aspect-locked resize whose pointer went past the opposite
\* corner of a 200 x 150 layer has been held at 10 x 10.
C4_HeldAtFloor ==
    /\ ResizeMoved /\ transformState.constrained
    /\ transformState.start.width = 200
    /\ \E i \in Target(transformState.id) :
         layers[i].width = MinSize /\ layers[i].height = MinSize

\* C5 as stated: every layer has width >= 10 and height >= 10, whatever
\* operation produced it.
C5_AlwaysAtFloor ==
    \A i \in DOMAIN layers : layers[i].width >= MinSize /\ layers[i].height >= MinSize

\* C5, amended: a layer is at least 10 x 10 unless it still has the size
\* computeFit gave its image at upload, or a crop confirm has written its
\* size, which is then at least 1 x 1.
C5_FloorByOperation ==
    \A i \in DOMAIN layers :
       LET l == layers[i]
           maxWidth == Max(rect.width - FitMargin, FitFloor)
           maxHeight == Max(rect.height - FitMargin, FitFloor)
           fit == computeFit(l.natural.w, l.natural.h, maxWidth, maxHeight)
       IN \/ l.width >= MinSize /\ l.height >= MinSize
          \/ IsBlob(l.src) /\ l.width = fit.width /\ l.height = fit.height
          \/ ~IsBlob(l.src) /\ l.width >= MinCrop /\ l.height >= MinCrop

\* C5, the case: a crop confirm has left a layer smaller than 10 x 10.
C5_CroppedBelowFloor ==
    /\ ev.op = "baked"
    /\ \E i \in DOMAIN layers :
         /\ ~IsBlob(layers[i].src)
         /\ layers[i].width < MinSize /\ layers[i].height < MinSize

\* width w and height h are in the ratio aw : ah up to the rounding of both
\* to integers: some w0, h0 with w0 / h0 = aw / ah are within 1/2 of w and h
WithinRounding(w, h, aw, ah) == 2 * Abs(w * ah - h * aw) <= aw + ah

\* C6: in a resize session started with the aspect lock, after every
\* pointer-move the layer's width / height is the aspect ratio taken at the
\* start of the session, up to the rounding of width and height.
C6_AspectKept ==
    (ResizeMoved /\ transformState.constrained) =>
      \A i \in Target(transformState.id) :
         WithinRounding(layers[i].width, layers[i].height,
                        transformState.start.aw, transformState.start.ah)

\* C7: after every resize pointer-move the stored x is in [0, W - width] and
\* the stored y is in [0, H - height].
C7_ResizeInsideCanvas ==
    ResizeMoved =>
      \A i \in Target(transformState.id) :
         LET l == layers[i] IN
         /\ 0 <= l.x /\ l.x <= rect.width - l.width
         /\ 0 <= l.y /\ l.y <= rect.height - l.height

\* what C8 expects of handle se for the deltas dx, dy: unlocked, the size
\* grows by the deltas; locked with |dx| <= |dy|, the height grows by dy and
\* the width is round(height * startAspect); the position stays
ExpectedSe(l, start, constrained, dx, dy) ==
    LET h == start.height + dy
        w == IF constrained THEN Round(h * start.width, start.height)
             ELSE start.width + dx
    IN [l EXCEPT !.x = start.x, !.y = start.y, !.width = w, !.height = h]

\* no floor and no bounds clamp is in effect for handle se: the unrounded
\* size is at least 10 x 10 and the layer stays inside the canvas
Unclamped(start, constrained, dx, dy) ==
    LET h == start.height + dy
        \* the unrounded width is wn / wd
        wn == IF constrained THEN h * start.width ELSE start.width + dx
        wd == IF constrained THEN start.height ELSE 1
    IN /\ h >= MinSize /\ wn >= MinSize * wd
       /\ start.x >= 0 /\ start.x * wd + wn <= rect.width * wd
       /\ start.y >= 0 /\ start.y + h <= rect.height

\* C8: a resize by handle se with no floor or bounds clamp in effect leaves
\* the layer at (start.x, start.y, start.width + dx, start.height + dy) when
\* unlocked and, when locked with |dx| <= |dy|, at height start.height + dy
\* and width round(height * startAspect).
C8_HandleSe ==
    [][\A p \in Pointers :
         LET ts == transformState
             dx == p[1] - rect.left - ts.start.mouseX
             dy == p[2] - rect.top - ts.start.mouseY
         IN (/\ ts.type = "resize" /\ ts.handle = "se"
             /\ onContainerPointerMove(p)
             /\ ts.constrained => Abs(dx) <= Abs(dy)
             /\ Unclamped(ts.start, ts.constrained, dx, dy))
            => \A i \in Target(ts.id) :
                  layers'[i] = ExpectedSe(layers[i], ts.start, ts.constrained, dx, dy)
      ]_vars

\* C8, the case: layer (100, 100, 200, 150), handle se moved by (+50, +50)
\* with the aspect lock, is at (100, 100) with width 267 and height 200.
C8_LockedExample ==
    /\ ResizeMoved /\ transformState.handle = "se" /\ transformState.constrained
    /\ transformState.start.x = 100 /\ transformState.start.y = 100
    /\ transformState.start.width = 200 /\ transformState.start.height = 150
    /\ \E i \in Target(transformState.id) :
         /\ layers[i].x = 100 /\ layers[i].y = 100
         /\ layers[i].width = 267 /\ layers[i].height = 200

\* C9: a pointer-down on a layer body leaves the controller dragging that
\* layer, with no resize, rotate or crop session remaining, and with that layer
\* selected and every other layer deselected.
C9_PointerDownPreempts ==
    ev.op = "layerDown" =>
      /\ dragState # Null
      /\ transformState = Null
      /\ \A i \in DOMAIN layers : layers[i].isSelected <=> layers[i].id = dragState.id

\* C10: a pointer-up (or pointer-leave) changes no layer, ends a drag, resize
\* or rotate session, and leaves a crop session as it is.
C10_PointerUp ==
    [][(pressed /\ ~pressed') =>
         /\ layers' = layers
         /\ dragState' = Null
         /\ transformState' = IF transformState.type = "crop" THEN transformState
                              ELSE Null
      ]_vars

\* C10, the case: a pointer-up has ended a drag that was started while a crop
\* session was open, and the crop session is still open.
C10_CropOutlivesPointerUp ==
    /\ ev.op = "up" /\ ev.drag /\ ev.type = "crop"
    /\ dragState = Null
    /\ transformState.type = "crop"

\* C11: after an Escape received in any state no session of any kind is
\* active: the controller is Idle, so that a following pointer-move changes no
\* layer.
C11_EscapeEndsEverySession ==
    ev.op = "Escape" => dragState = Null /\ transformState = Null

\* the decode of bake k settles and the bake commits
Commits(k) == k \in DOMAIN bakes /\ BakeDecoded(k)

\* C12: when a confirmed crop commits, the target layer's width and height
\* become the crop rectangle's size and are not larger than they were just
\* before the commit, its crop field is null, its bitmap is replaced by the
\* baked one, and its x, y, rotation and selection flag and every other layer
\* are unchanged.
C12_CommitShrinks ==
    [][\A k \in 1..MaxBakes :
         Commits(k) =>
           /\ DOMAIN layers' = DOMAIN layers
           /\ \A i \in DOMAIN layers :
                IF layers[i].id # bakes[k].layerId THEN layers'[i] = layers[i]
                ELSE /\ layers'[i].width = bakes[k].cropBox.w
                     /\ layers'[i].height = bakes[k].cropBox.h
                     /\ layers'[i].width <= layers[i].width
                     /\ layers'[i].height <= layers[i].height
                     /\ layers'[i].crop = Null
                     /\ layers'[i].src.kind = "data"
                     /\ layers'[i] = [layers[i] EXCEPT !.src = layers'[i].src,
                                                       !.width = layers'[i].width,
                                                       !.height = layers'[i].height,
                                                       !.crop = Null]
      ]_vars

\* C13: the bake's output bitmap has exactly the pixel size of the computed
\* source extent: for the layer-local crop (x, y, w, h), the display size
\* (dw, dh) and the bitmap size (bw, bh) the bake was started with, the source
\* rectangle is (max(0, round(x*bw/dw)), max(0, round(y*bh/dh)),
\* max(1, round(w*bw/dw)), max(1, round(h*bh/dh))) and the committed bitmap is
\* that width by that height.
C13_BakeExtent ==
    [][\A k \in 1..MaxBakes : Commits(k) =>
         LET b == bakes[k]
             sx == Max(0, Round(b.cropBox.x * b.src.w, b.width))
             sy == Max(0, Round(b.cropBox.y * b.src.h, b.height))
             sw == Max(1, Round(b.cropBox.w * b.src.w, b.width))
             sh == Max(1, Round(b.cropBox.h * b.src.h, b.height))
         IN /\ SourceRect(b) = [sx |-> sx, sy |-> sy, sw |-> sw, sh |-> sh]
            /\ \A i \in DOMAIN layers :
                 layers[i].id = b.layerId =>
                    layers'[i].src.w = sw /\ layers'[i].src.h = sh
      ]_vars

\* bake k crops layer l, as it is now, to its own full bounds
FullBounds(k, l) ==
    /\ l.id = bakes[k].layerId
    /\ bakes[k].src = l.src
    /\ bakes[k].width = l.width /\ bakes[k].height = l.height
    /\ bakes[k].cropBox = [x |-> 0, y |-> 0, w |-> l.width, h |-> l.height]

\* C14: crop confirm is idempotent in pixel extent: when a layer has been
\* cropped and the result is cropped again to its own full bounds
\* (0, 0, width, height), the second commit yields a bitmap of the same pixel
\* width and height, and the same display size, as after the first crop.
C14_RecropKeepsExtent ==
    [][\A k \in 1..MaxBakes : Commits(k) =>
         \A i \in DOMAIN layers :
            FullBounds(k, layers[i]) /\ layers[i].src.kind = "data" =>
               /\ layers'[i].src.w = layers[i].src.w
               /\ layers'[i].src.h = layers[i].src.h
               /\ layers'[i].width = layers[i].width
               /\ layers'[i].height = layers[i].height
      ]_vars

\* a cropped layer whose second crop, to its full bounds, awaits its decode
C14_RecropInFlight ==
    \E k \in DOMAIN bakes, i \in DOMAIN layers :
       FullBounds(k, layers[i]) /\ layers[i].src.kind = "data" /\ MayLoad(bakes[k].src)

\* C15: for a crop rectangle drawn anywhere on the canvas, the layer-local
\* rectangle handed to confirm lies within the layer's bounds: 0 <= x, 0 <= y,
\* x + w <= layer.width, y + h <= layer.height, with w >= 1 and h >= 1.
C15_CropBoxInsideLayer ==
    \A k \in DOMAIN bakes :
       LET c == bakes[k].cropBox
       IN /\ 0 <= c.x /\ 0 <= c.y
          /\ c.x + c.w <= bakes[k].width
          /\ c.y + c.h <= bakes[k].height
          /\ c.w >= 1 /\ c.h >= 1

\* C16: each layer's bitmap resource is released exactly once: an object URL
\* that is the current bitmap of a layer in the store has not been revoked,
\* and no object URL has been revoked a second time.
C16_ReleasedOnce ==
    /\ \A i \in DOMAIN layers :
          IsBlob(layers[i].src) => revoked[layers[i].src.n] = 0
    /\ \A n \in DOMAIN revoked : revoked[n] <= 1

\* the object URLs revoked by a step
Released == { n \in DOMAIN revoked : revoked'[n] > revoked[n] }

\* C17: after clearCanvas the layer store is empty and every object URL that
\* was the bitmap of a removed layer has been revoked, and clearCanvas is the
\* single operation that releases bitmap resources in bulk: a step that
\* revokes the object URLs of several layers is a clearCanvas.
C17_ClearIsTheBulkRelease ==
    [][/\ clearCanvas =>
            /\ layers' = <<>>
            /\ \A i \in DOMAIN layers :
                  IsBlob(layers[i].src) => revoked'[layers[i].src.n] > 0
       /\ Cardinality(Released) >= 2 => clearCanvas
      ]_vars

\* C18: from crop confirm until the decode completes and the bake commits,
\* the session remains the adjusting crop session, and no drag, resize or
\* rotate session exists beside it.
C18_CroppingWhileDecoding ==
    bakes # <<>> =>
       /\ transformState.type = "crop"
       /\ transformState.mode = "adjust"
       /\ dragState = Null

\* C19: when the decode of a bake completes after its target layer was
\* removed, the commit changes no layer, adds no layer and releases no
\* resource; when the layer is still in the store, whether or not Escape was
\* pressed meanwhile, the bake commits.
C19_CommitToleratesRemoval ==
    [][\A k \in 1..MaxBakes : Commits(k) =>
         IF Has(layers, bakes[k].layerId)
         THEN \A i \in DOMAIN layers :
                 layers[i].id = bakes[k].layerId =>
                    layers'[i].src.kind = "data" /\ layers'[i].crop = Null
         ELSE layers' = layers /\ revoked' = revoked
      ]_vars

\* the decode of bake k fails
Fails(k) == k \in DOMAIN bakes /\ BakeFailed(k)

\* C20: when the decode of a crop bake fails, the crop session has been
\* abandoned - Confirm ended it and left the layers as they were - and the
\* failure leaves every layer completely unmodified (bitmap, width, height,
\* crop and position) and opens no session.
C20_FailedDecodeLeavesLayer ==
    [][/\ ConfirmCrop => transformState' = Null /\ layers' = layers
       /\ \A k \in 1..MaxBakes : Fails(k) =>
             /\ layers' = layers
             /\ transformState' = transformState
             /\ dragState' = dragState
      ]_vars

\* a decode has just failed: the controller is idle and the layer that was
\* to be cropped still has its object URL and no crop
C20_DecodeFailed ==
    /\ ev.op = "bakeFailed"
    /\ transformState = Null /\ dragState = Null
    /\ selectedLayer # Null
    /\ IsBlob(selectedLayer.src) /\ selectedLayer.crop = Null

\* the session in progress works on a layer that the store does not hold
StaleSession ==
    \/ transformState.type \in {"resize", "rotate", "crop"}
         /\ ~Has(layers, transformState.id)
    \/ transformState = Null /\ dragState # Null /\ ~Has(layers, dragState.id)

StoreIds == { layers[i].id : i \in DOMAIN layers }

\* the ids of the layers that handleFiles calls in flight have made (newLayers)
PendingIds ==
    UNION { { uploads[k].newLayers[i].id : i \in DOMAIN uploads[k].newLayers } :
            k \in DOMAIN uploads }

\* C23: layer ids are unique and never reused: the layers of the store, and
\* those that uploads in flight have made, have distinct ids; an id that a
\* step assigns is greater than every id assigned before it, also after
\* clearCanvas has removed layers and when uploads overlap; and no step
\* changes the id of a layer that stays in the store.
C23_IdsUniqueNeverReused ==
    /\ [](/\ \A i, j \in DOMAIN layers : i # j => layers[i].id # layers[j].id
          /\ StoreIds \cap PendingIds = {}
          /\ \A k \in DOMAIN uploads : \A i, j \in DOMAIN uploads[k].newLayers :
                i # j => uploads[k].newLayers[i].id # uploads[k].newLayers[j].id
          /\ \A k, m \in DOMAIN uploads : \A i \in DOMAIN uploads[k].newLayers :
                \A j \in DOMAIN uploads[m].newLayers :
                   k # m => uploads[k].newLayers[i].id # uploads[m].newLayers[j].id
          /\ \A id \in StoreIds \cup PendingIds : id <= idCounter)
    /\ [][/\ idCounter' >= idCounter
          /\ \A id \in (StoreIds' \cup PendingIds') \ (StoreIds \cup PendingIds) :
                id > idCounter
          /\ \A i \in DOMAIN layers \cap DOMAIN layers' : layers'[i].id = layers[i].id
         ]_vars

\* uploads have overlapped and Clear has removed layers: the store holds a
\* later id before an earlier one, and the id 1 is no longer in it
C23_Interleaved ==
    /\ \E i, j \in DOMAIN layers : i < j /\ layers[i].id > layers[j].id
    /\ 1 \notin StoreIds

\* C24: within a rotate session every move measures the pointer from the
\* centre snapshotted at the start of the session and sets the rotation to
\* round(angle0 + (angleNow - mouseAngle0)) degrees; a pointer that has come
\* back to the direction it started in leaves the rotation the session
\* started with (k = 0, Math.atan2 has no memory of turns); the move changes
\* neither x, y, width, height nor any other layer, and the snapshot stays.
C24_RotateAboutSnapshot ==
    [][\A p \in Pointers :
         (transformState.type = "rotate" /\ onContainerPointerMove(p)) =>
            LET start == transformState.start
                angleNow == Atan2(2 * (p[2] - rect.top) - start.cy2,
                                  2 * (p[1] - rect.left) - start.cx2)
            IN /\ transformState' = transformState
               /\ DOMAIN layers' = DOMAIN layers
               /\ \A i \in DOMAIN layers :
                     IF layers[i].id # transformState.id
                     THEN layers'[i] = layers[i]
                     ELSE /\ layers'[i] = [layers[i] EXCEPT !.rotation = layers'[i].rotation]
                          /\ layers'[i].rotation =
                                Round(start.angle0 + (angleNow - start.mouseAngle0),
                                      AngleUnit)
                          /\ angleNow = start.mouseAngle0 =>
                                layers'[i].rotation * AngleUnit = start.angle0
      ]_vars

\* a session that started on a turned layer has handled a move that brought
\* the pointer back to the starting direction: the rotation is the starting one
C24_BackAtStart ==
    /\ transformState.type = "rotate"
    /\ ev.op = "move" /\ ev.type = "rotate"
    /\ transformState.start.angle0 # 0
    /\ Has(layers, transformState.id)
    /\ Find(layers, transformState.id).rotation * AngleUnit = transformState.start.angle0

-----------------------------------------------------------------------------
(* Resize sessions *)

\* lines 407-408 leave the position that the anchor derived: the bounds clamp
\* is not in effect on the move to (pointerX, pointerY)
Unbounded(ts, pointerX, pointerY) ==
    LET a == anchors(ts.handle, ts.start, ts.constrained,
                     pointerX - ts.start.mouseX, pointerY - ts.start.mouseY)
    IN /\ Bound(a.nx, AtLeastMin(a.nw, a.d), rect.width, a.d) = a.nx
       /\ Bound(a.ny, AtLeastMin(a.nh, a.d), rect.height, a.d) = a.ny

\* C25: a resize move keeps the opposite edge where the session found it,
\* also when the pointer drives the size below the 10px floor: with the bounds
\* clamp not in effect, handles w, nw, sw leave x' + width' = start.x +
\* start.width and handles n, nw, ne leave y' + height' = start.y +
\* start.height; an unlocked n or s handle changes neither x nor width, an
\* unlocked e or w handle neither y nor height.
C25_OppositeEdgeAnchored ==
    [][\A p \in Pointers :
         (/\ transformState.type = "resize"
          /\ Has(layers, transformState.id)
          /\ onContainerPointerMove(p)
          /\ Unbounded(transformState, p[1] - rect.left, p[2] - rect.top)) =>
            LET ts == transformState
                start == ts.start
                l == Find(layers', ts.id)
            IN /\ ts.handle \in {"w", "nw", "sw"} =>
                     l.x + l.width = start.x + start.width
               /\ ts.handle \in {"n", "nw", "ne"} =>
                     l.y + l.height = start.y + start.height
               /\ (~ts.constrained /\ ts.handle \in {"n", "s"}) =>
                     l.x = start.x /\ l.width = start.width
               /\ (~ts.constrained /\ ts.handle \in {"e", "w"}) =>
                     l.y = start.y /\ l.height = start.height
      ]_vars

-----------------------------------------------------------------------------
(* Crop mode: startCropMode, lines 245-257.  No control calls it (the Crop
   button calls beginCropDraw, line 772); here it is called between gestures
   with the id of any layer. *)

\* lines 246-256: the session that startCropMode(id) leaves; it returns at
\* line 247 when the store has no layer id
CropModeSessionOf(id) ==
    IF ~Has(layers, id) THEN transformState
    ELSE LET layer == Find(layers, id)
         IN [type |-> "crop", id |-> id, mode |-> "adjust",
             box |-> IF layer.crop # Null
                     THEN [x |-> layer.crop.x, y |-> layer.crop.y,
                           w |-> layer.crop.width, h |-> layer.crop.height]
                     ELSE [x |-> 0, y |-> 0, w |-> layer.width, h |-> layer.height]]

startCropMode(id) ==
    /\ ~pressed /\ movesLeft > 0
    /\ transformState' = CropModeSessionOf(id)
    /\ ev' = IF Has(layers, id) THEN Event("startCropMode") ELSE ev
    /\ UNCHANGED <<layers, dragState, shift, idCounter, urlCounter, uploads, bakes,
                   revoked, pressed, movesLeft, quota>>

NextCropMode ==
    \/ Next
    \/ \E id \in Ids : startCropMode(id)

\* a run with one image and one handled move
SpecCropMode == InitDispatch /\ [][NextCropMode]_vars

\* the rectangle of a crop session ts in the coordinates of layer l, as the
\* crop UI and Confirm compute it
LayerLocal(ts, l) == getCropBoxRelativeToLayer(ts, l)

\* C26: starting a crop on the selected layer leaves an adjusting crop
\* session whose rectangle, in the layer's coordinates, is the layer's crop
\* rectangle if it has one and (0, 0, width, height) otherwise.
C26_CropSeededFromLayer ==
    [][(/\ selectedLayer # Null
        /\ \/ beginCropDraw(CropButtonAt(selectedLayer))
           \/ startCropMode(selectedLayer.id)) =>
          LET l == selectedLayer
          IN /\ transformState'.type = "crop"
             /\ transformState'.mode = "adjust"
             /\ LayerLocal(transformState', l) =
                   IF l.crop # Null
                   THEN [x |-> l.crop.x, y |-> l.crop.y,
                         w |-> l.crop.width, h |-> l.crop.height]
                   ELSE [x |-> 0, y |-> 0, w |-> l.width, h |-> l.height]
      ]_vars

-----------------------------------------------------------------------------
(* Crop sessions *)

\* what a crop may change of a layer: its bitmap, position, size, rotation
\* and crop field
Content(l) ==
    [src |-> l.src, natural |-> l.natural, x |-> l.x, y |-> l.y,
     width |-> l.width, height |-> l.height, rotation |-> l.rotation,
     crop |-> l.crop]

\* the step leaves the store with the same layers, each with its content
Untouched ==
    /\ DOMAIN layers' = DOMAIN layers
    /\ \A i \in DOMAIN layers : Content(layers'[i]) = Content(layers[i])

\* C27: starting a crop, a pointer-move during a crop session, Cancel and
\* Escape leave the bitmap, position, size, rotation and crop field of every
\* layer unchanged; Cancel and Escape discard the session with its rectangle;
\* and a step taken during a crop session changes the content of a layer only
\* if it is the commit of a confirmed crop.
C27_CropDrawingKeepsLayers ==
    [][/\ (selectedLayer # Null /\ beginCropDraw(CropButtonAt(selectedLayer))) =>
             Untouched
       /\ \A p \in Pointers :
             (transformState.type = "crop" /\ onContainerPointerMove(p)) => Untouched
       /\ CancelCrop => (Untouched /\ transformState' = Null)
       /\ (transformState.type = "crop" /\ KeyDown("Escape")) =>
             (Untouched /\ transformState' = Null)
       /\ transformState.type = "crop" =>
             \A i \in DOMAIN layers \cap DOMAIN layers' :
                 Content(layers'[i]) # Content(layers[i]) =>
                    \E k \in 1..MaxBakes : Commits(k)
      ]_vars

\* a crop was started on the selected layer, a move drew its rectangle, and
\* Escape ended the session
C27_DrawnThenEscaped ==
    /\ ev.op = "Escape" /\ ev.type = "crop"
    /\ movesLeft = 0
    /\ transformState = Null
    /\ selectedLayer # Null

\* C28: the aspect lock of a resize session is the state of Shift when the
\* session started: startResize stores it, pressing or releasing Shift during
\* the session leaves the session as it is, and every move of the session
\* sizes the layer with the stored lock, whatever Shift is during the move.
C28_LockFixedAtStart ==
    [][/\ \A h \in Handles :
             (selectedLayer # Null /\ startResize(h, HandleAt(selectedLayer, h))) =>
                transformState'.constrained = shift
       /\ (transformState.type = "resize" /\ (KeyDown("Shift") \/ KeyUp("Shift"))) =>
             transformState' = transformState
       /\ \A p \in Pointers :
             (/\ transformState.type = "resize"
              /\ Has(layers, transformState.id)
              /\ onContainerPointerMove(p)) =>
                LET ts == transformState
                    a == anchors(ts.handle, ts.start, ts.constrained,
                                 p[1] - rect.left - ts.start.mouseX,
                                 p[2] - rect.top - ts.start.mouseY)
                    l == Find(layers', ts.id)
                IN /\ transformState' = ts
                   /\ l.width = Round(AtLeastMin(a.nw, a.d), a.d)
                   /\ l.height = Round(AtLeastMin(a.nh, a.d), a.d)
      ]_vars

\* a session started with Shift held has handled a move after Shift was
\* released: se handle of the 200 x 150 layer, pointer at (350,300), sized
\* with the lock (267 x 200; 250 x 200 without it)
C28_LockedAfterRelease ==
    /\ transformState.type = "resize"
    /\ transformState.constrained /\ ~shift
    /\ transformState.handle = "se"
    /\ ev.op = "move" /\ ev.type = "resize"
    /\ Has(layers, transformState.id)
    /\ Find(layers, transformState.id).width = 267
    /\ Find(layers, transformState.id).height = 200

\* C29: Confirm bakes the layer the crop session was started on: the applyCrop
\* call it makes is for the id stored in the session, with the rectangle
\* measured against the bounds of that layer.
C29_ConfirmBakesSessionLayer ==
    [][ConfirmCrop =>
         LET ts == transformState
             b == bakes'[Len(bakes')]
         IN /\ b.layerId = ts.id
            /\ Has(layers, ts.id) =>
                  b.cropBox = getCropBoxRelativeToLayer(ts, Find(layers, ts.id))
      ]_vars

====
